---- MODULE Spec2Model ----
(***************************************************************************)
(* A model of kes: the layered configuration resolver (Config), the        *)
(* API-gateway resource deriver, lodash.merge as used for layer merging,   *)
(* and the deployment pipeline of the CLI (buildCf, buildNestedCfs,        *)
(* Kes.uploadCF, Kes.cloudFormation, Kes.opsStack, Kes.deleteStack).       *)
(*                                                                         *)
(* Strings that the code inspects with includes()/=== are sequences of     *)
(* words (split at blanks and underscores), so that includes() is a        *)
(* computed contiguous-subsequence test.  Inputs that a handler reads      *)
(* once (a CLI flag, a remote response) are drawn where the code reads     *)
(* them.                                                                   *)
(***************************************************************************)
EXTENDS Integers, Sequences, FiniteSets, TLC

VARIABLES
  pc,          \* position of the CLI run in its promise chain
  selected,    \* options.deployment and how parseConfig resolved it
  config,      \* the resolved parent Config (fields the pipeline branches on)
  nestedLeft,  \* the queue of p-limit: nested templates not started, in key order
  running,     \* nested templates whose limited task has started and not settled
  urls,        \* nested template names whose url has been stored
  kes,         \* the Kes instance that is running: "none", "nested" or "main"
  cur,         \* the config handed to the running Kes instance
  op,          \* the Kes method selected by the switch of buildCf
  compiled,    \* the running instance has written its compiled template
  calls,       \* remote calls issued so far, in order
  opCalls,     \* Len(calls) when the selected Kes method was entered
  attempts,    \* failed attempts of the running describeStack (p-retry)
  probe,       \* how the describeStack of cloudFormation settled
  wait,        \* the local variable wait of Kes.cloudFormation
  err,         \* the error travelling down a promise chain
  r,           \* the value handed to the last then() of Kes.cloudFormation
  confirm,     \* how deleteStack was allowed to delete
  surfaced,    \* the events printed after a failed deployment
  cfResult,    \* the promise returned by Kes.cloudFormation
  showOutputs, \* config.showOutputs once opsStack has read it
  exitCode,    \* process exit code, -1 while running
  jobs,        \* where each zip-and-upload job of the running process() is
  applied,     \* the library function a unit run has applied, or "none"
  input,       \* the arguments of that function
  output       \* what the function returned

vars == << pc, selected, config, nestedLeft, running, urls, kes, cur, op, compiled,
           calls, opCalls, attempts, probe, wait, err, r, confirm, surfaced,
           cfResult, showOutputs, exitCode, jobs, applied, input, output >>

----------------------------------------------------------------------------
(* Bounds of the model *)

\* most unique-hash zip-and-upload jobs of one Lambda.process
MaxJobs == 2
\* most events in one describeStackEvents response
MaxEvents == 2

----------------------------------------------------------------------------
(* Strings *)

\* String.prototype.includes on word sequences
Includes(s, p) ==
  \E i \in 0..(Len(s) - Len(p)) : SubSeq(s, i + 1, i + Len(p)) = p

NoUpdatesMsg == << "No", "updates", "are", "to", "be", "performed." >>
NotExistMsg == << "Stack", "with", "id", "stack", "does", "not", "exist" >>
AlreadyExistsMsg == << "Stack", "stack", "already", "exists" >>
ThrottleMsg == << "Rate", "exceeded" >>
DeniedMsg == << "Access", "Denied" >>
\* the message of the aws-sdk waiter error (code ResourceNotReady)
NotInStateMsg(w) == << "Resource", "is", "not", "in", "the", "state", w >>

DoesNotExist == << "does", "not", "exist" >>

Throttling == [code |-> "ThrottlingException", message |-> ThrottleMsg]
NotFound == [code |-> "ValidationError", message |-> NotExistMsg]
NoUpdates == [code |-> "ValidationError", message |-> NoUpdatesMsg]
AlreadyExists == [code |-> "AlreadyExistsException", message |-> AlreadyExistsMsg]
Denied == [code |-> "AccessDenied", message |-> DeniedMsg]
NotReady(w) == [code |-> "ResourceNotReady", message |-> NotInStateMsg(w)]
NoError == [code |-> "", message |-> << >>]

DescribeErrors == { Throttling, NotFound, Denied }
UpdateErrors == { NoUpdates, NotFound, Throttling, Denied }
CreateErrors == { AlreadyExists, Throttling, Denied }
WaitErrors(w) == { NotReady(w), Denied }

----------------------------------------------------------------------------
(* Config: layer selection (parseConfig) *)

\* the own keys of the parsed config document; every document has default
Docs == { {"default"}, {"default", "staging"} }
\* options.deployment as given on the command line
Deployments == { "", "default", "staging", "constructor" }
\* names every plain object answers through Object.prototype
ObjectPrototypeKeys == { "constructor" }

\* this.deployment && parsedConfig[this.deployment], a truthiness test of a
\* property lookup, which also finds inherited properties
LayerFound(doc, d) == d # "" /\ (d \in doc \/ d \in ObjectPrototypeKeys)

\* values of config.nested_templates' key list
NestedChoices == { << >>, << "vpc" >>, << "vpc", "db" >> }

\* the argument of `kes cf`
Cmds == { "create", "update", "upsert", "deploy", "validate", "compile",
          "delete", "status" }

----------------------------------------------------------------------------
(* The CLI run *)

\* the variables of the unit runs, which apply one library function to
\* arguments drawn from a bounded set
unitVars == << applied, input, output >>
NoUnitRun == applied = "none" /\ input = << >> /\ output = << >>

\* the CLI before buildCf is called
InitRun ==
  /\ pc = "buildCf"
  /\ selected = [deployment |-> "default", own |-> FALSE]
  /\ config = [bucket |-> FALSE, template |-> FALSE, located |-> FALSE,
               nested |-> << >>]
  /\ nestedLeft = << >>
  /\ running = {}
  /\ urls = {}
  /\ kes = "none"
  /\ cur = [bucket |-> FALSE, template |-> FALSE, located |-> FALSE,
            nested |-> << >>]
  /\ op = "none"
  /\ compiled = FALSE
  /\ calls = << >>
  /\ opCalls = 0
  /\ attempts = 0
  /\ probe = "none"
  /\ wait = "stackUpdateComplete"
  /\ err = NoError
  /\ r = [kind |-> "undefined", StackEvents |-> << >>]
  /\ confirm = "none"
  /\ surfaced = << >>
  /\ cfResult = "none"
  /\ showOutputs = "unread"
  /\ exitCode = -1
  /\ jobs = << >>

Init == InitRun /\ NoUnitRun

\* utils.success / utils.failure: process.exit
Exit(code) == pc' = "exit" /\ exitCode' = code

pipelineVars == << selected, config, nestedLeft, running, urls, kes, cur, op,
                  compiled >>
cfVars == << attempts, probe, wait, err, r, surfaced, cfResult, showOutputs >>
\* every variable of the CLI run
runVars == << pc, exitCode, calls, opCalls, confirm, jobs, pipelineVars,
             cfVars >>

\* buildCf up to the Config constructor: a throwing constructor is turned
\* into a rejected promise, which the cf command hands to utils.failure
buildCf ==
  /\ pc = "buildCf"
  /\ \E d \in Deployments, doc \in Docs :
       /\ selected' = [deployment |-> d, own |-> d \in doc]
       /\ IF LayerFound(doc, d)
          THEN /\ \E b \in BOOLEAN, t \in BOOLEAN, n \in NestedChoices :
                    /\ config' = [bucket |-> b, template |-> t,
                                   located |-> FALSE, nested |-> n]
                    /\ nestedLeft' = n
               /\ pc' = "buildNestedCfs"
               /\ UNCHANGED exitCode
          ELSE /\ Exit(1)
               /\ UNCHANGED << config, nestedLeft >>
  /\ UNCHANGED << running, urls, kes, cur, op, compiled, calls, opCalls,
                  confirm >>
  /\ UNCHANGED cfVars
  /\ UNCHANGED unitVars
  /\ UNCHANGED jobs

\* pLimit(1)
Concurrency == 1

\* p-limit starts a queued task only while fewer than `concurrency` tasks run
LimitFree(active) == Cardinality(active) < Concurrency

\* Promise.all(ps) of buildNestedCfs is pending
NestedPending == pc = "buildNestedCfs" \/ (kes = "nested" /\ pc # "exit")

\* p-limit starts the next queued task of buildNestedCfs, which runs up to
\* kes.uploadCF(): the nested Config is parsed with the parent's options and
\* takes the parent's bucket when it has none; a throw ends in
\* .catch(utils.failure)
buildNestedCfs ==
  /\ NestedPending
  /\ nestedLeft # << >>
  /\ LimitFree(running)
  /\ nestedLeft' = Tail(nestedLeft)
  /\ \E doc \in Docs, own \in BOOLEAN :
       IF LayerFound(doc, selected.deployment)
       THEN /\ kes' = "nested"
            /\ running' = running \cup { Head(nestedLeft) }
            /\ cur' = [bucket |-> own \/ config.bucket, template |-> FALSE,
                        located |-> FALSE, nested |-> << >>]
            /\ compiled' = FALSE
            /\ pc' = "process"
            /\ UNCHANGED exitCode
       ELSE /\ Exit(1)
            /\ UNCHANGED << kes, running, cur, compiled >>
  /\ UNCHANGED << selected, config, urls, op, calls, opCalls, confirm >>
  /\ UNCHANGED cfVars
  /\ UNCHANGED unitVars
  /\ UNCHANGED jobs

\* .then((uri) => { config.nested_templates[name].url = uri; }), after which
\* the limited task has settled
nestedUploaded ==
  /\ pc = "uploaded"
  /\ kes = "nested"
  /\ \E name \in running :
       /\ urls' = urls \cup { name }
       /\ running' = running \ { name }
  /\ pc' = "buildNestedCfs"
  /\ UNCHANGED << selected, config, nestedLeft, kes, cur, op, compiled, calls,
                  opCalls, confirm, exitCode >>
  /\ UNCHANGED cfVars
  /\ UNCHANGED unitVars
  /\ UNCHANGED jobs

\* the switch of buildCf, run once every nested template is built
switchCmd ==
  /\ pc = "buildNestedCfs"
  /\ nestedLeft = << >> /\ running = {}
  /\ kes' = "main"
  /\ cur' = config
  /\ compiled' = FALSE
  /\ opCalls' = Len(calls)
  /\ \E cmd \in Cmds :
       CASE cmd \in { "create", "update", "upsert", "deploy" } ->
              /\ op' = "opsStack"
              /\ pc' = "process"
              /\ UNCHANGED exitCode
         [] cmd = "validate" ->
              /\ op' = "validateTemplate"
              /\ pc' = IF config.bucket THEN "process" ELSE "validateBody"
              /\ UNCHANGED exitCode
         [] cmd = "compile" ->
              /\ op' = "compileCF"
              /\ pc' = "process"
              /\ UNCHANGED exitCode
         [] cmd = "delete" ->
              /\ op' = "deleteStack"
              /\ pc' = "deleteStack"
              /\ UNCHANGED exitCode
         [] OTHER ->
              /\ op' = "default"
              /\ Exit(0)
  /\ UNCHANGED << selected, config, nestedLeft, running,
                  urls, calls, confirm >>
  /\ UNCHANGED cfVars
  /\ UNCHANGED unitVars
  /\ UNCHANGED jobs

----------------------------------------------------------------------------
(* Kes.uploadCF: Lambda.process, compileCF, template upload *)

JoinSkipped(js) == TRUE
\* Promise.all(jobs) resolves once every job has resolved
AllResolved(js) == \A j \in DOMAIN js : js[j] = "resolved"

\* Lambda.process up to Promise.all(jobs): buildS3Path writes hash, bucket,
\* local and remote into every lambda with source, then one job is started
\* per unique hash.  getHash throws when no hash tool answers; without a
\* bucket the S3 requests fail parameter validation before anything is sent.
process ==
  /\ pc = "process"
  /\ \E n \in 0..MaxJobs, hashOk \in BOOLEAN :
       IF n > 0 /\ (~hashOk \/ ~cur.bucket)
       THEN /\ Exit(1)
            /\ UNCHANGED << cur, jobs >>
       ELSE /\ cur' = [cur EXCEPT !.located = TRUE]
            /\ jobs' = [j \in 1..n |-> "zipLambda"]
            /\ pc' = "Promise.all"
            /\ UNCHANGED exitCode
  /\ UNCHANGED << selected, config, nestedLeft, running,
                  urls, kes, op, compiled >>
  /\ UNCHANGED << calls, opCalls, confirm >>
  /\ UNCHANGED cfVars
  /\ UNCHANGED unitVars

\* zipLambda of one job: the zip exists or is written, or utils.zip fails;
\* a rejected job rejects Promise.all, and the rejection reaches
\* utils.failure before any other callback runs
zipLambda ==
  /\ pc = "Promise.all"
  /\ \E j \in DOMAIN jobs, ok \in BOOLEAN :
       /\ jobs[j] = "zipLambda"
       /\ IF ok
          THEN jobs' = [jobs EXCEPT ![j] = "headObject"] /\ UNCHANGED << pc, exitCode >>
          ELSE jobs' = [jobs EXCEPT ![j] = "rejected"] /\ Exit(1)
  /\ UNCHANGED pipelineVars
  /\ UNCHANGED << calls, opCalls, confirm >>
  /\ UNCHANGED cfVars
  /\ UNCHANGED unitVars

\* uploadLambda of one job, first request: the object is there already or
\* not.  The request only reads; calls records the CloudFormation requests
\* and the writes to S3.
headObject ==
  /\ pc = "Promise.all"
  /\ \E j \in DOMAIN jobs, found \in BOOLEAN :
       /\ jobs[j] = "headObject"
       /\ jobs' = [jobs EXCEPT ![j] = IF found THEN "resolved" ELSE "upload"]
  /\ UNCHANGED pipelineVars
  /\ UNCHANGED << pc, exitCode, calls, opCalls, confirm >>
  /\ UNCHANGED cfVars
  /\ UNCHANGED unitVars

\* uploadLambda of one job, s3.upload
s3Upload ==
  /\ pc = "Promise.all"
  /\ \E j \in DOMAIN jobs, ok \in BOOLEAN :
       /\ jobs[j] = "upload"
       /\ IF ok
          THEN jobs' = [jobs EXCEPT ![j] = "resolved"] /\ UNCHANGED << pc, exitCode >>
          ELSE jobs' = [jobs EXCEPT ![j] = "rejected"] /\ Exit(1)
  /\ calls' = Append(calls, "uploadLambda")
  /\ UNCHANGED pipelineVars
  /\ UNCHANGED << opCalls, confirm >>
  /\ UNCHANGED cfVars
  /\ UNCHANGED unitVars

\* Promise.all(jobs).then: process resolves with the config, and the then()
\* of compileCF runs
allResolved ==
  /\ pc = "Promise.all"
  /\ AllResolved(jobs)
  /\ pc' = "compileCF"
  /\ UNCHANGED pipelineVars
  /\ UNCHANGED << calls, opCalls, confirm, exitCode, jobs >>
  /\ UNCHANGED cfVars
  /\ UNCHANGED unitVars

\* the then() of compileCF: parseCF of the application template and of the
\* override template (skipped when it does not exist), mergeYamls, write;
\* the jobs of process are out of scope afterwards
compileCF ==
  /\ pc = "compileCF"
  /\ \E main \in BOOLEAN, override \in { "ENOENT", "ok", "throws" } :
       LET ok == IF cur.template THEN main /\ override # "throws" ELSE main
       IN IF ok
          THEN /\ compiled' = TRUE
               /\ IF kes = "main" /\ op = "compileCF"
                  THEN Exit(0)
                  ELSE pc' = "uploadCF" /\ UNCHANGED exitCode
          ELSE /\ Exit(1)
               /\ UNCHANGED compiled
  /\ UNCHANGED << selected, config, nestedLeft, running, urls, kes, cur, op,
                  calls,
                  opCalls, confirm >>
  /\ UNCHANGED cfVars
  /\ UNCHANGED unitVars
  /\ jobs' = << >>

\* the then() of uploadCF
uploadCF ==
  /\ pc = "uploadCF"
  /\ IF ~compiled
     THEN Exit(1) /\ UNCHANGED calls
     ELSE IF cur.bucket
     THEN /\ calls' = Append(calls, "uploadTemplate")
          /\ \E ok \in BOOLEAN :
               IF ok THEN pc' = "uploaded" /\ UNCHANGED exitCode ELSE Exit(1)
     ELSE /\ pc' = "uploaded"
          /\ UNCHANGED << calls, exitCode >>
  /\ UNCHANGED pipelineVars
  /\ UNCHANGED << opCalls, confirm >>
  /\ UNCHANGED cfVars
  /\ UNCHANGED unitVars
  /\ UNCHANGED jobs

AnyMethodDeploys(method) == TRUE
\* opsStack continues uploadCF with this.cloudFormation(), validateTemplate
\* with this.cf.validateTemplate(params)
ThenCloudFormation(method) == method = "opsStack"

\* what follows uploadCF in opsStack and in validateTemplate
mainUploaded ==
  /\ pc = "uploaded"
  /\ kes = "main"
  /\ pc' = IF ThenCloudFormation(op) THEN "cloudFormation" ELSE "validateTemplate"
  /\ UNCHANGED pipelineVars
  /\ UNCHANGED << calls, opCalls, confirm, exitCode >>
  /\ UNCHANGED cfVars
  /\ UNCHANGED unitVars
  /\ UNCHANGED jobs

\* validateTemplate without a bucket reads the compiled template from disk
validateBody ==
  /\ pc = "validateBody"
  /\ \E exists \in BOOLEAN :
       IF exists THEN pc' = "validateTemplate" /\ UNCHANGED exitCode ELSE Exit(1)
  /\ UNCHANGED pipelineVars
  /\ UNCHANGED << calls, opCalls, confirm >>
  /\ UNCHANGED cfVars
  /\ UNCHANGED unitVars
  /\ UNCHANGED jobs

validateTemplate ==
  /\ pc = "validateTemplate"
  /\ calls' = Append(calls, "validateTemplate")
  /\ \E ok \in BOOLEAN : Exit(IF ok THEN 0 ELSE 1)
  /\ UNCHANGED pipelineVars
  /\ UNCHANGED << opCalls, confirm >>
  /\ UNCHANGED cfVars
  /\ UNCHANGED unitVars
  /\ UNCHANGED jobs

----------------------------------------------------------------------------
(* Kes.cloudFormation *)

\* retries of p-retry in describeStack
Retries == 5
\* this.startTime, taken when the Kes instance is constructed
StartTime == 1
\* timestamps of stack events: before, at and after the start time
Times == { 0, 1, 2, 3 }
Statuses == { << "CREATE", "FAILED" >>, << "CREATE", "COMPLETE" >> }
StackEvent == [Timestamp : Times, ResourceStatus : Statuses]
EventLists == UNION { [1..k -> StackEvent] : k \in 0..MaxEvents }

errorsWithDetail ==
  << << "CREATE", "FAILED" >>,
     << "Resource", "is", "not", "in", "the", "state", "stackUpdateComplete" >>,
     << "UPDATE", "ROLLBACK", "COMPLETE" >>,
     << "ROLLBACK", "COMPLETE" >>,
     << "UPDATE", "ROLLBACK", "FAILED" >> >>

errorRequiresDetail(e) ==
  SelectSeq(errorsWithDetail, LAMBDA i : Includes(e.message, i))

IsNoUpdatesNoPeriod(e) ==
  e.message = << "No", "updates", "are", "to", "be", "performed" >>
\* e.message === 'No updates are to be performed.'
IsNoUpdates(e) == e.message = NoUpdatesMsg

\* the filter of the failure listing; forEach keeps the response's order
IsFailureAfterStart(s) ==
  Includes(s.ResourceStatus, << "FAILED" >>) /\ s.Timestamp > StartTime

AnyErrorRetried(error) == TRUE
\* error.code !== 'ThrottlingException' aborts the retries of p-retry
IsThrottling(error) == error.code = "ThrottlingException"

\* the error p-retry rejects with after pRetry.AbortError(error.message, error):
\* a new Error carrying the message only
AbortError(e) == [code |-> "", message |-> e.message]

NoValue == [kind |-> "undefined", StackEvents |-> << >>]

\* cloudFormation up to describeStack: the parameter list is read from
\* config.params[config.template.baseName], a TypeError when config.params is
\* undefined or config.template is null
cloudFormation ==
  /\ pc = "cloudFormation"
  /\ \E params \in { "undefined", "byTemplate", "array" } :
       IF params = "undefined" \/ ~cur.template
       THEN /\ cfResult' = "rejected"
            /\ Exit(1)
            /\ UNCHANGED << attempts, wait >>
       ELSE /\ wait' = "stackUpdateComplete"
            /\ attempts' = 0
            /\ pc' = "describeStack"
            /\ UNCHANGED << cfResult, exitCode >>
  /\ UNCHANGED pipelineVars
  /\ UNCHANGED << calls, opCalls, confirm, probe, err, r, surfaced, showOutputs >>
  /\ UNCHANGED unitVars
  /\ UNCHANGED jobs

\* one attempt of describeStack made for cloudFormation
describeStack ==
  /\ pc = "describeStack"
  /\ calls' = Append(calls, "describeStacks")
  /\ \E resp \in { NoError } \cup DescribeErrors :
       IF resp = NoError
       THEN /\ pc' = "updateStack"
            /\ probe' = "resolved"
            /\ attempts' = 0
            /\ UNCHANGED err
       ELSE IF IsThrottling(resp)
       THEN IF attempts < Retries
            THEN /\ attempts' = attempts + 1
                 /\ UNCHANGED << pc, probe, err >>
            ELSE /\ err' = resp
                 /\ probe' = "rejected"
                 /\ attempts' = 0
                 /\ pc' = "catchProbe"
       ELSE /\ err' = AbortError(resp)
            /\ probe' = IF resp = NotFound THEN "not found" ELSE "rejected"
            /\ attempts' = 0
            /\ pc' = "catchProbe"
  /\ UNCHANGED pipelineVars
  /\ UNCHANGED << opCalls, confirm, wait, r, surfaced, cfResult, showOutputs,
                  exitCode >>
  /\ UNCHANGED unitVars
  /\ UNCHANGED jobs

\* .then(r => this.cf.updateStack(params).promise())
updateStack ==
  /\ pc = "updateStack"
  /\ calls' = Append(calls, "updateStack")
  /\ \E resp \in { NoError } \cup UpdateErrors :
       IF resp = NoError
       THEN pc' = "waitFor" /\ UNCHANGED err
       ELSE pc' = "catchProbe" /\ err' = resp
  /\ UNCHANGED pipelineVars
  /\ UNCHANGED << opCalls, confirm, probe, attempts, wait, r, surfaced, cfResult,
                  showOutputs, exitCode >>
  /\ UNCHANGED unitVars
  /\ UNCHANGED jobs

\* the first catch: it receives the rejection of describeStack and that of
\* updateStack alike
catchProbe ==
  /\ pc = "catchProbe"
  /\ IF Includes(err.message, DoesNotExist)
     THEN wait' = "stackCreateComplete" /\ pc' = "createStack"
     ELSE pc' = "catchDeploy" /\ UNCHANGED wait
  /\ UNCHANGED pipelineVars
  /\ UNCHANGED << calls, opCalls, confirm, probe, attempts, err, r, surfaced,
                  cfResult, showOutputs, exitCode >>
  /\ UNCHANGED unitVars
  /\ UNCHANGED jobs

createStack ==
  /\ pc = "createStack"
  /\ calls' = Append(calls, "createStack")
  /\ \E resp \in { NoError } \cup CreateErrors :
       IF resp = NoError
       THEN pc' = "waitFor" /\ UNCHANGED err
       ELSE pc' = "catchDeploy" /\ err' = resp
  /\ UNCHANGED pipelineVars
  /\ UNCHANGED << opCalls, confirm, probe, attempts, wait, r, surfaced, cfResult,
                  showOutputs, exitCode >>
  /\ UNCHANGED unitVars
  /\ UNCHANGED jobs

\* .then(() => this.waitFor(wait))
waitFor ==
  /\ pc = "waitFor"
  /\ calls' = Append(calls, "waitFor")
  /\ \E resp \in { NoError } \cup WaitErrors(wait) :
       IF resp = NoError
       THEN pc' = "thenEvents" /\ r' = NoValue /\ UNCHANGED err
       ELSE pc' = "catchDeploy" /\ err' = resp /\ UNCHANGED r
  /\ UNCHANGED pipelineVars
  /\ UNCHANGED << opCalls, confirm, probe, attempts, wait, surfaced, cfResult,
                  showOutputs, exitCode >>
  /\ UNCHANGED unitVars
  /\ UNCHANGED jobs

\* the second catch
catchDeploy ==
  /\ pc = "catchDeploy"
  /\ IF IsNoUpdates(err)
     THEN /\ r' = [kind |-> "message", StackEvents |-> << >>]
          /\ pc' = "thenEvents"
          /\ UNCHANGED << cfResult, exitCode >>
     ELSE IF Len(errorRequiresDetail(err)) > 0
     THEN /\ pc' = "describeStackEvents"
          /\ UNCHANGED << r, cfResult, exitCode >>
     ELSE /\ cfResult' = "rejected"
          /\ Exit(1)
          /\ UNCHANGED r
  /\ UNCHANGED pipelineVars
  /\ UNCHANGED << calls, opCalls, confirm, probe, attempts, wait, err, surfaced,
                  showOutputs >>
  /\ UNCHANGED unitVars
  /\ UNCHANGED jobs

\* return this.cf.describeStackEvents({ StackName: this.stack }).promise()
describeStackEvents ==
  /\ pc = "describeStackEvents"
  /\ calls' = Append(calls, "describeStackEvents")
  /\ \/ \E l \in EventLists :
          /\ r' = [kind |-> "events", StackEvents |-> l]
          /\ pc' = "thenEvents"
          /\ UNCHANGED << err, cfResult, exitCode >>
     \/ /\ r' = [kind |-> "response", StackEvents |-> << >>]
        /\ pc' = "thenEvents"
        /\ UNCHANGED << err, cfResult, exitCode >>
     \/ /\ err' = Denied
        /\ cfResult' = "rejected"
        /\ Exit(1)
        /\ UNCHANGED r
  /\ UNCHANGED pipelineVars
  /\ UNCHANGED << opCalls, confirm, probe, attempts, wait, surfaced, showOutputs >>
  /\ UNCHANGED unitVars
  /\ UNCHANGED jobs

\* the last then: if (r && r.StackEvents) list the failures and throw
thenEvents ==
  /\ pc = "thenEvents"
  /\ IF r.kind = "events"
     THEN /\ surfaced' = SelectSeq(r.StackEvents, IsFailureAfterStart)
          /\ cfResult' = "rejected"
          /\ Exit(1)
     ELSE /\ cfResult' = "resolved"
          /\ pc' = "opsStack"
          /\ UNCHANGED << surfaced, exitCode >>
  /\ UNCHANGED pipelineVars
  /\ UNCHANGED << calls, opCalls, confirm, probe, attempts, wait, err, r, showOutputs >>
  /\ UNCHANGED unitVars
  /\ UNCHANGED jobs

\* opsStack after cloudFormation resolved
opsStack ==
  /\ pc = "opsStack"
  /\ \E show \in BOOLEAN :
       IF show
       THEN /\ showOutputs' = "yes"
            /\ attempts' = 0
            /\ pc' = "describeCF"
            /\ UNCHANGED exitCode
       ELSE /\ showOutputs' = "no"
            /\ Exit(0)
            /\ UNCHANGED attempts
  /\ UNCHANGED pipelineVars
  /\ UNCHANGED << calls, opCalls, confirm, probe, wait, err, r, surfaced, cfResult >>
  /\ UNCHANGED unitVars
  /\ UNCHANGED jobs

\* one attempt of describeStack made for describeCF, and the printing of the
\* outputs
describeCF ==
  /\ pc = "describeCF"
  /\ calls' = Append(calls, "describeStacks")
  /\ \E resp \in { NoError } \cup DescribeErrors :
       IF resp = NoError
       THEN /\ Exit(0)
            /\ attempts' = 0
       ELSE IF IsThrottling(resp) /\ attempts < Retries
       THEN /\ attempts' = attempts + 1
            /\ UNCHANGED << pc, exitCode >>
       ELSE /\ Exit(1)
            /\ attempts' = 0
  /\ UNCHANGED pipelineVars
  /\ UNCHANGED << opCalls, confirm, probe, wait, err, r, surfaced, cfResult,
                  showOutputs >>
  /\ UNCHANGED unitVars
  /\ UNCHANGED jobs

----------------------------------------------------------------------------
(* Kes.deleteStack *)

MayDeleteUnasked(yes, answer) == TRUE
\* config.yes, else answers.delete of the confirmation prompt
MayDelete(yes, answer) == yes \/ answer

deleteStack ==
  /\ pc = "deleteStack"
  /\ \E yes \in BOOLEAN, answer \in BOOLEAN :
       /\ confirm' = IF yes THEN "flag" ELSE IF answer THEN "answered" ELSE "declined"
       /\ IF MayDelete(yes, answer)
          THEN pc' = "deleteCF" /\ UNCHANGED exitCode
          ELSE Exit(0)
  /\ UNCHANGED pipelineVars
  /\ UNCHANGED << calls, opCalls >>
  /\ UNCHANGED cfVars
  /\ UNCHANGED unitVars
  /\ UNCHANGED jobs

deleteCF ==
  /\ pc = "deleteCF"
  /\ calls' = Append(calls, "deleteStack")
  /\ \E ok \in BOOLEAN :
       IF ok THEN pc' = "waitForDelete" /\ UNCHANGED exitCode ELSE Exit(1)
  /\ UNCHANGED pipelineVars
  /\ UNCHANGED << opCalls, confirm >>
  /\ UNCHANGED cfVars
  /\ UNCHANGED unitVars
  /\ UNCHANGED jobs

\* .then(() => this.waitFor('stackDeleteComplete'))
waitForDelete ==
  /\ pc = "waitForDelete"
  /\ calls' = Append(calls, "waitFor")
  /\ \E ok \in BOOLEAN : Exit(IF ok THEN 0 ELSE 1)
  /\ UNCHANGED pipelineVars
  /\ UNCHANGED << opCalls, confirm >>
  /\ UNCHANGED cfVars
  /\ UNCHANGED unitVars
  /\ UNCHANGED jobs

----------------------------------------------------------------------------

Next ==
  \/ buildCf
  \/ buildNestedCfs
  \/ nestedUploaded
  \/ switchCmd
  \/ process
  \/ zipLambda
  \/ headObject
  \/ s3Upload
  \/ allResolved
  \/ compileCF
  \/ uploadCF
  \/ mainUploaded
  \/ validateBody
  \/ validateTemplate
  \/ cloudFormation
  \/ describeStack
  \/ updateStack
  \/ catchProbe
  \/ createStack
  \/ waitFor
  \/ catchDeploy
  \/ describeStackEvents
  \/ thenEvents
  \/ opsStack
  \/ describeCF
  \/ deleteStack
  \/ deleteCF
  \/ waitForDelete

Spec == Init /\ [][Next]_vars

----------------------------------------------------------------------------
(* Parsed YAML and JSON values, lodash.merge, utils.mergeYamls *)

\* longest sequence of a drawn value
MaxLen == 2

\* a parsed value is a scalar (its text, a sequence of tokens), a sequence
\* of values or a mapping from keys to values
S(text) == [s |-> text]
Q(items) == [q |-> items]
M(fields) == [m |-> fields]
IsScalar(v) == "s" \in DOMAIN v
IsSeq(v) == "q" \in DOMAIN v
IsMap(v) == "m" \in DOMAIN v
\* objValue of a key the destination does not have
Undefined == [u |-> TRUE]
EmptyObject == M(<< >>)

Larger(a, b) == IF a >= b THEN a ELSE b

\* lodash.merge(object, source). baseMerge visits every key of source, an
\* index of an array being a key like any other: a scalar srcValue is
\* assigned; an array srcValue is merged into the destination's array, or
\* into [] when the destination holds no array; a plain-object srcValue is
\* merged into the destination's object or array, or into {} when the
\* destination holds neither. Named properties merged into an array are
\* not part of the result, the callers serialise it next (JSON.stringify,
\* yaml.safeDump) and both write the indices of an array only.
RECURSIVE merge(_, _)
merge(object, source) ==
  LET mergeValue(objValue, srcValue) ==
        IF IsScalar(srcValue) THEN srcValue
        ELSE IF IsSeq(srcValue)
        THEN merge(IF IsSeq(objValue) THEN objValue ELSE Q(<< >>), srcValue)
        ELSE IF IsSeq(objValue) THEN objValue
        ELSE merge(IF IsMap(objValue) THEN objValue ELSE EmptyObject, srcValue)
  IN IF IsMap(source)
     THEN M([k \in DOMAIN object.m \cup DOMAIN source.m |->
               IF k \notin DOMAIN source.m THEN object.m[k]
               ELSE IF k \notin DOMAIN object.m
               THEN mergeValue(Undefined, source.m[k])
               ELSE mergeValue(object.m[k], source.m[k])])
     ELSE Q([i \in 1..Larger(Len(object.q), Len(source.q)) |->
               IF i > Len(source.q) THEN object.q[i]
               ELSE IF i > Len(object.q)
               THEN mergeValue(Undefined, source.q[i])
               ELSE mergeValue(object.q[i], source.q[i])])

\* values of the drawn documents: scalars, sequences of scalars, mappings of
\* those, under one top-level key
Scalars == { S(<< "a" >>), S(<< "b" >>) }
ScalarSeqs == { Q(q) : q \in UNION { [1..n -> Scalars] : n \in 0..MaxLen } }
Leaves == Scalars \cup ScalarSeqs
InnerKeys == { "k", "l" }
Mappings(keys, values) ==
  { M(f) : f \in UNION { [ks -> values] : ks \in SUBSET keys } }
YamlValues == Leaves \cup Mappings(InnerKeys, Leaves)
YamlDocs == Mappings({ "x" }, YamlValues)

\* the state before mergeYamls(file1, file2) is called: obj1 and obj2 are
\* what yaml.safeLoad returns for the two files
InitMerge ==
  /\ InitRun
  /\ applied = "none"
  /\ input \in [obj1 : YamlDocs, obj2 : YamlDocs]
  /\ output = << >>

\* utils.mergeYamls: merge({}, obj1, obj2); the merged object is what
\* yaml.safeDump then writes
mergeYamls ==
  /\ applied = "none"
  /\ applied' = "mergeYamls"
  /\ output' = merge(merge(EmptyObject, input.obj1), input.obj2)
  /\ UNCHANGED input
  /\ UNCHANGED runVars

NextMerge == mergeYamls
SpecMerge == InitMerge /\ [][NextMerge]_vars

----------------------------------------------------------------------------
(* Config.configureApiGateway *)

\* most entries of lambda.apiGateway read by one configureApiGateway
MaxRoutes == 2

\* a text is a sequence of tokens, none of which is a prefix of another, so
\* that two texts are the same string exactly when they are the same sequence
UpperFirstToken(tok) ==
  CASE tok = "foo" -> "Foo" [] tok = "bar" -> "Bar" [] tok = "baz" -> "Baz"
    [] OTHER -> tok
\* lodash.upperFirst
upperFirst(text) ==
  IF text = << >> THEN << >>
  ELSE << UpperFirstToken(Head(text)) >> \o Tail(text)
\* the tokens that /\W/ matches
NonWord == { "{", "}", "/", "-" }
IsWord(tok) == tok \notin NonWord
\* lodash.capitalize and String.prototype.toUpperCase on the method names
capitalize(verb) ==
  CASE verb \in { "GET", "get", "Get" } -> "Get"
    [] verb \in { "POST", "post", "Post" } -> "Post"
    [] OTHER -> verb
toUpperCase(verb) ==
  CASE verb \in { "GET", "get", "Get" } -> "GET"
    [] verb \in { "POST", "post", "Post" } -> "POST"
    [] OTHER -> verb

\* api.path.split('/')
RECURSIVE split(_)
split(path) ==
  IF \A i \in DOMAIN path : path[i] # "/" THEN << path >>
  ELSE LET i == CHOOSE j \in DOMAIN path :
                  path[j] = "/" /\ \A k \in 1..(j - 1) : path[k] # "/"
       IN << SubSeq(path, 1, i - 1) >> \o split(SubSeq(path, i + 1, Len(path)))

\* names.join('')
RECURSIVE join(_)
join(names) ==
  IF names = << >> THEN << >> ELSE Head(names) \o join(Tail(names))

\* the name a segment contributes: a segment that starts with '{' loses its
\* non-word characters and gets Var appended; the first letter is raised
canonicalName(segment) ==
  upperFirst(IF segment # << >> /\ Head(segment) = "{"
             THEN SelectSeq(segment, IsWord) \o << "Var" >>
             ELSE segment)

PutAppended(entries, key, value) ==
  Append(entries, [key |-> key, value |-> value])

\* obj[key] = value on an object whose keys keep their insertion order
Put(entries, key, value) ==
  IF \E i \in DOMAIN entries : entries[i].key = key
  THEN [i \in DOMAIN entries |->
          IF entries[i].key = key THEN [key |-> key, value |-> value]
          ELSE entries[i]]
  ELSE Append(entries, [key |-> key, value |-> value])
\* lodash.values
values(entries) == [i \in DOMAIN entries |-> entries[i].value]
Has(entries, key) == \E i \in DOMAIN entries : entries[i].key = key
Get(entries, key) ==
  entries[CHOOSE i \in DOMAIN entries : entries[i].key = key].value

ResourceRawParent(api, segments, segmentNames, index) ==
  [name |-> << "ApiGateWayResource" >> \o join(SubSeq(segmentNames, 1, index)),
   pathPart |-> segments[index],
   parents |->
     IF index = 1
     THEN << << "Fn::GetAtt:" >>, << "-", api.api, "RestApi" >>,
             << "-", "RootResourceId" >> >>
     ELSE << << "Ref:", "ApiGateWayResource" >>
               \o join(SubSeq(segments, 1, index - 1)) >>,
   firstParent |-> index = 1,
   api |-> api.api]

\* the resource written for segment index of a path
Resource(api, segments, segmentNames, index) ==
  LET name == join(SubSeq(segmentNames, 1, index))
  IN [name |-> << "ApiGateWayResource" >> \o name,
      pathPart |-> segments[index],
      parents |->
        IF index = 1
        THEN << << "Fn::GetAtt:" >>, << "-", api.api, "RestApi" >>,
                << "-", "RootResourceId" >> >>
        ELSE << << "Ref:", "ApiGateWayResource" >>
                  \o join(SubSeq(segmentNames, 1, index - 1)) >>,
      firstParent |-> index = 1,
      api |-> api.api]

\* segments.forEach: apiResources after the segments from index on
RECURSIVE PutResources(_, _, _, _, _)
PutResources(apiResources, api, segments, segmentNames, index) ==
  IF index > Len(segments) THEN apiResources
  ELSE PutResources(
         Put(apiResources, join(SubSeq(segmentNames, 1, index)),
             Resource(api, segments, segmentNames, index)),
         api, segments, segmentNames, index + 1)

\* the paths of the drawn apiGateway entries: foo/bar, /foo/bar, /foo/baz,
\* foo/Bar, fooBar, {foo}, fooVar and foo
Paths ==
  { << "foo", "/", "bar" >>, << "/", "foo", "/", "bar" >>,
    << "/", "foo", "/", "baz" >>, << "foo", "/", "Bar" >>,
    << "foo", "Bar" >>, << "{", "foo", "}" >>, << "foo", "Var" >>,
    << "foo" >> }
\* the entries of lambda.apiGateway
Routes == [path : Paths, method : { "GET", "POST" }, cors : BOOLEAN,
           api : { "v1", "v2" }]
\* config.apis, as the list of the names it declares, when it is given
ApiLists == { << "v1" >>, << "v1", "v2" >> }
\* the one lambda the drawn entries belong to
LambdaName == "f1"

DependencyDropped(apiDependencies, api, methodName) == apiDependencies
\* apiDependencies[api.api].push({ name: methodName })
PushDependency(apiDependencies, api, methodName) ==
  Put(apiDependencies, api,
      Append(Get(apiDependencies, api), [name |-> methodName]))

\* the state before configureApiGateway(config) is called; the entries of
\* lambda.apiGateway are drawn as the loop reaches them and input.routes
\* lists the ones read so far
InitApi ==
  /\ InitRun
  /\ applied = "none"
  /\ \E given \in BOOLEAN, apis \in ApiLists :
       input = [hasApis |-> given, apis |-> apis, routes |-> << >>]
  /\ output = << >>

RECURSIVE DeclareApis(_, _)
DeclareApis(apiDependencies, apis) ==
  IF apis = << >> THEN apiDependencies
  ELSE DeclareApis(Put(apiDependencies, Head(apis), << >>), Tail(apis))

\* configureApiGateway up to the loop over the lambdas: without config.apis
\* the config is returned as it is
configureApiGateway ==
  /\ applied = "none"
  /\ IF input.hasApis
     THEN /\ applied' = "for"
          /\ output' = [apiMethods |-> << >>,
                        apiMethodsOptions |-> << >>,
                        apiDependencies |-> DeclareApis(<< >>, input.apis),
                        apiResources |-> << >>]
     ELSE /\ applied' = "returned config"
          /\ output' = input
  /\ UNCHANGED input
  /\ UNCHANGED runVars

\* one pass of for (const api of lambda.apiGateway); pushing to the
\* dependency list of an api that config.apis does not declare throws
forApi ==
  /\ applied = "for"
  /\ Len(input.routes) < MaxRoutes
  /\ \E api \in Routes :
       LET segments == split(api.path)
           segmentNames == [i \in DOMAIN segments |->
                              canonicalName(segments[i])]
           method == capitalize(api.method)
           name == join(segmentNames)
           methodName == << "ApiGatewayMethod" >> \o name
                           \o << capitalize(method) >>
           methodObject == [path |-> api.path,
                            name |-> methodName,
                            method |-> toUpperCase(method),
                            cors |-> api.cors,
                            resource |-> << "ApiGateWayResource" >> \o name,
                            lambda |-> LambdaName,
                            api |-> api.api]
       IN /\ input' = [input EXCEPT !.routes = Append(@, api)]
          /\ IF Has(output.apiDependencies, api.api)
             THEN /\ applied' = "for"
                  /\ output' =
                       [apiMethods |-> Append(output.apiMethods, methodObject),
                        apiMethodsOptions |->
                          IF api.cors
                          THEN Put(output.apiMethodsOptions, name,
                                   [name |-> << "ApiGatewayMethod" >> \o name
                                               \o << "Options" >>,
                                    resource |->
                                      << "ApiGateWayResource" >> \o name,
                                    api |-> api.api])
                          ELSE output.apiMethodsOptions,
                        apiDependencies |->
                          PushDependency(output.apiDependencies, api.api,
                                         methodName),
                        apiResources |->
                          PutResources(output.apiResources, api, segments,
                                       segmentNames, 1)]
             ELSE /\ applied' = "thrown"
                  /\ output' = [error |-> "TypeError"]
  /\ UNCHANGED runVars

\* the return after the loops: Object.assign(Config, { ... })
returnSets ==
  /\ applied = "for"
  /\ applied' = "returned"
  /\ output' = [apiMethods |-> output.apiMethods,
                apiResources |-> values(output.apiResources),
                apiMethodsOptions |-> values(output.apiMethodsOptions),
                apiDependencies |->
                  [i \in DOMAIN output.apiDependencies |->
                     [name |-> output.apiDependencies[i].key,
                      methods |-> output.apiDependencies[i].value]]]
  /\ UNCHANGED input
  /\ UNCHANGED runVars

NextApi == configureApiGateway \/ forApi \/ returnSets
SpecApi == InitApi /\ [][NextApi]_vars

----------------------------------------------------------------------------
(* Config.parseConfig: layers, mustacheRender, configureLambda *)

\* most lambdas of a drawn config document
MaxUnits == 2

\* the tokens of a text that are Mustache tags, and the name each looks up
Tags == { "{{stage}}", "{{b}}", "{{c}}", "{{d}}", "{{e}}", "{{q}}" }
KeyOfTag(tok) ==
  CASE tok = "{{stage}}" -> "stage"
    [] tok = "{{b}}" -> "b"
    [] tok = "{{c}}" -> "c"
    [] tok = "{{d}}" -> "d"
    [] tok = "{{e}}" -> "e"
    [] tok = "{{q}}" -> "q"

\* the characters JSON.stringify escapes inside a string
Quote == "\""
Backslash == "\\"

\* JSON.stringify of a string, without the surrounding quotes
JSONstringify(text) ==
  join([i \in DOMAIN text |->
          IF text[i] \in { Quote, Backslash }
          THEN << Backslash, text[i] >>
          ELSE << text[i] >>])

\* JSON.parse accepts the inside of a string: no bare quote, and a backslash
\* only in front of a quote or a backslash (no word of the model starts an
\* escape sequence)
RECURSIVE Parsable(_)
Parsable(json) ==
  IF json = << >> THEN TRUE
  ELSE IF json[1] = Quote THEN FALSE
  ELSE IF json[1] = Backslash
  THEN /\ Len(json) >= 2
       /\ json[2] \in { Quote, Backslash }
       /\ Parsable(SubSeq(json, 3, Len(json)))
  ELSE Parsable(Tail(json))

KeepEscapes(json) == json
\* JSON.parse of the inside of a string that it accepts
RECURSIVE JSONparse(_)
JSONparse(json) ==
  IF json = << >> THEN << >>
  ELSE IF json[1] = Backslash /\ Len(json) >= 2
  THEN << json[2] >> \o JSONparse(SubSeq(json, 3, Len(json)))
  ELSE << json[1] >> \o JSONparse(Tail(json))

\* Mustache.render of one text with Mustache.escape set to the identity: a
\* tag becomes the text of the view's value, or nothing without such a value
Render(text, view) ==
  join([i \in DOMAIN text |->
          IF text[i] \in Tags
          THEN IF KeyOfTag(text[i]) \in DOMAIN view.m
                  /\ IsScalar(view.m[KeyOfTag(text[i])])
               THEN view.m[KeyOfTag(text[i])].s
               ELSE << >>
          ELSE << text[i] >>])

\* mustacheRender(obj, values): the JSON text of obj is rendered and parsed
\* again, which renders every scalar of obj where it stands
RECURSIVE mustacheRender(_, _)
mustacheRender(obj, view) ==
  IF IsScalar(obj) THEN S(JSONparse(Render(JSONstringify(obj.s), view)))
  ELSE IF IsSeq(obj)
  THEN Q([i \in DOMAIN obj.q |-> mustacheRender(obj.q[i], view)])
  ELSE M([k \in DOMAIN obj.m |-> mustacheRender(obj.m[k], view)])

\* JSON.parse of the rendered text throws a SyntaxError
RECURSIVE RenderThrows(_, _)
RenderThrows(obj, view) ==
  IF IsScalar(obj) THEN ~Parsable(Render(JSONstringify(obj.s), view))
  ELSE IF IsSeq(obj)
  THEN \E i \in DOMAIN obj.q : RenderThrows(obj.q[i], view)
  ELSE \E k \in DOMAIN obj.m : RenderThrows(obj.m[k], view)

\* the text of `${value}` for a property that may be missing
TextOf(object, key) ==
  IF key \in DOMAIN object.m THEN object.m[key].s ELSE << "undefined" >>

LambdaDefaults ==
  [memory |-> S(<< "1024" >>), timeout |-> S(<< "300" >>), envs |-> EmptyObject]

\* configureLambda: the lambdas of a mapping take their key as name; every
\* lambda gets the missing ones of memory, timeout and envs, and fullName
configureLambda(conf) ==
  IF "lambdas" \notin DOMAIN conf.m THEN conf
  ELSE
    LET lambdas == conf.m["lambdas"]
        Configured(lambda) ==
          M(("fullName" :>
               S(TextOf(conf, "stackName") \o << "-" >> \o TextOf(lambda, "name")))
            @@ lambda.m @@ LambdaDefaults)
    IN IF IsSeq(lambdas)
       THEN M(("lambdas" :>
                 Q([i \in DOMAIN lambdas.q |-> Configured(lambdas.q[i])]))
              @@ conf.m)
       ELSE M(("lambdas" :>
                 M([name \in DOMAIN lambdas.m |->
                      Configured(M(("name" :> S(<< name >>))
                                   @@ lambdas.m[name].m))]))
              @@ conf.m)

\* if (this.stack) config.stackName = this.stack
StackNameFromLayer(stack, conf) == conf
StackNameFromOption(stack, conf) ==
  IF stack # << >> THEN M(("stackName" :> S(stack)) @@ conf.m) ELSE conf

\* the lambdas of the drawn documents: name f1, f2, ... by position or key,
\* each of memory, timeout and envs given or not
UnitKeys == { "f" \o ToString(i) : i \in 1..MaxUnits }
GivenFields == SUBSET { "memory", "timeout", "envs" }
UnitFields(given) ==
  [k \in given |->
     CASE k = "memory" -> S(<< "512" >>)
       [] k = "timeout" -> S(<< "60" >>)
       [] k = "envs" -> M("k" :> S(<< "v" >>))]
\* a lambda of a list names itself
ListUnits(i) ==
  { M(("name" :> S(<< "f" \o ToString(i) >>)) @@ UnitFields(g)) : g \in GivenFields }
\* a lambda of a mapping may carry a name of its own besides its key
MapUnits ==
  { M(UnitFields(g)) : g \in GivenFields } \cup { M("name" :> S(<< "other" >>)) }
UnitLists(n) ==
  { q \in [1..n -> UNION { ListUnits(i) : i \in 1..n }] :
      \A i \in 1..n : q[i] \in ListUnits(i) }
LambdaLists == { Q(q) : q \in UNION { UnitLists(n) : n \in 0..MaxUnits } }
LambdaMaps ==
  { M(f) : f \in UNION { [ks -> MapUnits] : ks \in SUBSET UnitKeys } }

DefaultLayers ==
  { M(("stackName" :> S(name)) @@ ("lambdas" :> lambdas)) :
      name \in { << "demo" >>, << "{{stage}}", "-", "demo" >> },
      lambdas \in LambdaLists \cup LambdaMaps }
ProdLayers ==
  { EmptyObject,
    M("stackName" :> S(<< "demo", "-", "prod" >>)),
    M(("stackName" :> S(<< "demo", "-", "prod" >>))
      @@ ("lambdas" :> Q(<< M("name" :> S(<< "g" >>)) >>))) }
\* the parsed config document, with and without a prod layer
ConfigDocs ==
  { M("default" :> d) : d \in DefaultLayers }
    \cup { M(("default" :> d) @@ ("prod" :> l)) :
             d \in DefaultLayers, l \in ProdLayers }
\* this.envs, what loadLocalEnvs returned
EnvSets == { EmptyObject, M("stage" :> S(<< "dev" >>)) }
\* this.deployment and this.stack, << >> for the null of a missing --stack
ConfigOptions == [deployment : { "default", "prod" },
                  stack : { << >>, << "cli" >> }]

\* the state before parseConfig is called on a Config without parent; the
\* drawn documents declare no apis and their lambdas no services
InitConfig ==
  /\ InitRun
  /\ applied = "none"
  /\ input \in [options : ConfigOptions, parsedConfig : ConfigDocs,
                envs : EnvSets]
  /\ output = << >>

\* Config.parseConfig; without config.apis configureApiGateway returns the
\* config itself, which the closing merge leaves as it is
parseConfig ==
  /\ applied = "none"
  /\ applied' = "parseConfig"
  /\ LET parsedConfig == input.parsedConfig
         deployment == input.options.deployment
         layered == IF deployment \in DOMAIN parsedConfig.m
                    THEN merge(parsedConfig.m["default"],
                               parsedConfig.m[deployment])
                    ELSE parsedConfig.m["default"]
         once == mustacheRender(layered,
                   merge(merge(EmptyObject, layered), input.envs))
         twice == mustacheRender(once,
                    merge(merge(EmptyObject, once), input.envs))
         named == StackNameFromOption(input.options.stack, twice)
     IN output' =
          IF LayerFound(DOMAIN parsedConfig.m, deployment)
          THEN [config |-> configureLambda(named), rendered |-> twice]
          ELSE [error |-> << "Deployment", deployment, "was", "not", "found" >>]
  /\ UNCHANGED input
  /\ UNCHANGED runVars

NextConfig == parseConfig
SpecConfig == InitConfig /\ [][NextConfig]_vars

----------------------------------------------------------------------------
(* Lambda.process: buildS3Path, unique hashes, zip-and-upload jobs *)

\* the source folders of the drawn lambdas: src/a and src/b
Sources == { << "src", "/", "a" >>, << "src", "/", "b" >> }
\* getHash: the digest of the file names and contents under the folder,
\* which is a function of the folder as long as the files stay as they are
getHash(folderName) == << "sha1(" >> \o folderName \o << ")" >>
\* this.buildFolder and this.key
BuildFolder == << ".kes", "/", "build", "/", "cloudformation" >>
Key == << "stack", "/", "lambdas" >>
S3Source == [key |-> << "given", ".zip" >>, bucket |-> << "other-bucket" >>]

\* buildS3Path: a lambda with source gets hash, bucket, local and remote; one
\* with s3Source alone gets remote and bucket from it
buildS3Path(lambda, bucket) ==
  IF lambda.source # << >>
  THEN [lambda EXCEPT
          !.hash = getHash(lambda.source),
          !.bucket = bucket,
          !.local = BuildFolder \o << "/" >> \o getHash(lambda.source)
                      \o << ".zip" >>,
          !.remote = Key \o << "/" >> \o getHash(lambda.source)
                       \o << ".zip" >>]
  ELSE IF lambda.s3Source
  THEN [lambda EXCEPT !.remote = S3Source.key, !.bucket = S3Source.bucket]
  ELSE lambda

\* the key under which a lambda with source is put into uniqueHashes
UniqueByName(lambda) == << lambda.name >>
UniqueHash(lambda) == lambda.hash

\* uniqueHashes: the last lambda of every key, in the order the keys came
RECURSIVE uniqueHashes(_, _)
uniqueHashes(lambdas, unique) ==
  IF lambdas = << >> THEN unique
  ELSE uniqueHashes(Tail(lambdas),
                    IF Head(lambdas).source # << >>
                    THEN Put(unique, UniqueHash(Head(lambdas)), Head(lambdas))
                    ELSE unique)

\* the lambdas of the drawn configs, named f1, f2, ... in their order; a
\* field that buildS3Path has not written holds the empty text
DrawnLambdas(i) ==
  [name : { "f" \o ToString(i) }, source : Sources \cup { << >> },
   s3Source : BOOLEAN, hash : { << >> }, bucket : { << >> },
   local : { << >> }, remote : { << >> }]
LambdaSeqs(n) ==
  { q \in [1..n -> UNION { DrawnLambdas(i) : i \in 1..n }] :
      \A i \in 1..n : q[i] \in DrawnLambdas(i) }

\* the state before process() is called on a config with lambdas, given as
\* a list or as a mapping in the order of its keys
InitLambda ==
  /\ InitRun
  /\ applied = "none"
  /\ \E n \in 0..MaxUnits :
       input \in [isArray : BOOLEAN, lambdas : LambdaSeqs(n),
                  bucket : { << >>, << "bucket" >> }, hashTool : BOOLEAN]
  /\ output = << >>

\* process up to Promise.all(jobs); getHash throws when neither shasum nor
\* sha1sum answers
lambdaProcess ==
  /\ applied = "none"
  /\ LET lambdas == [i \in DOMAIN input.lambdas |->
                       buildS3Path(input.lambdas[i], input.bucket)]
         unique == uniqueHashes(lambdas, << >>)
     IN IF ~input.hashTool
           /\ \E i \in DOMAIN input.lambdas : input.lambdas[i].source # << >>
        THEN /\ applied' = "thrown"
             /\ output' = [error |-> "getHash"]
        ELSE /\ applied' = "Promise.all"
             /\ output' = [lambdas |-> lambdas,
                           jobs |-> [j \in DOMAIN unique |->
                                       [lambda |-> unique[j].value,
                                        state |-> "pending"]],
                           config |-> << >>]
  /\ UNCHANGED input
  /\ UNCHANGED runVars

\* one job of Promise.all settles; the first rejection rejects process()
zipAndUploadLambda ==
  /\ applied = "Promise.all"
  /\ \E j \in DOMAIN output.jobs, ok \in BOOLEAN :
       /\ output.jobs[j].state = "pending"
       /\ output' = [output EXCEPT
                       !.jobs[j].state = IF ok THEN "resolved" ELSE "rejected"]
       /\ applied' = IF ok THEN "Promise.all" ELSE "rejected"
  /\ UNCHANGED input
  /\ UNCHANGED runVars

\* the then() of Promise.all: config.lambdas is written, as the list or as a
\* mapping keyed by name
processThen ==
  /\ applied = "Promise.all"
  /\ \A j \in DOMAIN output.jobs : output.jobs[j].state = "resolved"
  /\ applied' = "processed"
  /\ output' = [output EXCEPT !.config = output.lambdas]
  /\ UNCHANGED input
  /\ UNCHANGED runVars

NextLambda == lambdaProcess \/ zipAndUploadLambda \/ processThen
SpecLambda == InitLambda /\ [][NextLambda]_vars

(* utils.loadLocalEnvs *)

\* most lines of an env file
MaxLines == 2

EnvKeys == { "PATH", "TIMEOUT" }

\* process.env before the call: every value is a string
ProcessEnvs == UNION { [D -> { "/bin", "100" }] : D \in SUBSET EnvKeys }

\* lines of an env file, as words: blank, comment, KEY=, KEY=VALUE, and a
\* quoted value
EnvLines ==
  { << >>, << "#", "TIMEOUT", "=", "1" >>,
    << "TIMEOUT", "=", "\"", "300", "\"" >> }
    \cup { << k, "=" >> : k \in EnvKeys }
    \cup { << k, "=", v >> : k \in EnvKeys, v \in { "100", "200" } }

EnvFiles == UNION { [1..n -> EnvLines] : n \in 0..MaxLines }

\* the messages fs.readFileSync throws with
NoEntMsg == << "ENOENT", ":", "no", "such", "file", "or", "directory,",
               "open", ".env" >>
AccessMsg == << "EACCES", ":", "permission", "denied,", "open", ".env" >>
AccessNoEntMsg == << "EACCES", ":", "permission", "denied,", "open",
                     "ENOENT", ".env" >>
ReadErrors == { NoEntMsg, AccessMsg, AccessNoEntMsg }

\* dotenv.parse, one line: KEY=VAL with a key of word characters; the value
\* is trimmed and loses surrounding quotes
IsAssignment(line) ==
  Len(line) >= 2 /\ line[1] \in EnvKeys /\ line[2] = "="
LineValue(line) ==
  LET words == SubSeq(line, 3, Len(line))
  IN IF words = << >> THEN ""
     ELSE IF Len(words) = 3 /\ words[1] = "\"" /\ words[3] = "\""
     THEN words[2]
     ELSE words[1]

AssignKeepsTarget(target, source) ==
  [k \in DOMAIN target \cup DOMAIN source |->
     IF k \in DOMAIN target THEN target[k] ELSE source[k]]
\* Object.assign(target, source) for a defined source
ObjectAssign(target, source) ==
  [k \in DOMAIN target \cup DOMAIN source |->
     IF k \in DOMAIN source THEN source[k] ELSE target[k]]

\* dotenv.parse: obj[key] = value for every matching line, in order
RECURSIVE dotenvParse(_)
dotenvParse(lines) ==
  IF lines = << >> THEN << >>
  ELSE LET line == lines[Len(lines)]
           obj == dotenvParse(SubSeq(lines, 1, Len(lines) - 1))
       IN IF IsAssignment(line)
          THEN ObjectAssign(obj, (line[1] :> LineValue(line)))
          ELSE obj

\* the state before loadLocalEnvs(envFile) is called
InitEnv ==
  /\ InitRun
  /\ applied = "none"
  /\ input \in [env : ProcessEnvs,
                file : [error : { << >> }, lines : EnvFiles]
                         \cup [error : ReadErrors, lines : { << >> }]]
  /\ output = << >>

\* the try block of loadLocalEnvs and its catch: _dotenv stays undefined
\* when readFileSync throws a message that includes ENOENT, any other error
\* is thrown again
readEnvFile ==
  /\ applied = "none"
  /\ IF input.file.error = << >>
     THEN /\ applied' = "parsed"
          /\ output' = [defined |-> TRUE,
                        dotenv |-> dotenvParse(input.file.lines)]
     ELSE IF Includes(input.file.error, << "ENOENT" >>)
     THEN /\ applied' = "parsed"
          /\ output' = [defined |-> FALSE, dotenv |-> << >>]
     ELSE /\ applied' = "env thrown"
          /\ output' = [error |-> input.file.error, env |-> input.env]
  /\ UNCHANGED input
  /\ UNCHANGED runVars

\* return Object.assign(process.env, _dotenv): the target itself is returned
assignEnv ==
  /\ applied = "parsed"
  /\ applied' = "loadLocalEnvs"
  /\ output' = [returned |-> "process.env",
                env |-> IF output.defined
                        THEN ObjectAssign(input.env, output.dotenv)
                        ELSE input.env]
  /\ UNCHANGED input
  /\ UNCHANGED runVars

NextEnv == readEnvFile \/ assignEnv
SpecEnv == InitEnv /\ [][NextEnv]_vars

----------------------------------------------------------------------------

(* The substitution passes of Config.parseConfig *)

\* most words of the text of key a
MaxText == 2

Words == { "x", "{{b}}", "{{q}}", Quote, Backslash }
Texts == UNION { [1..n -> Words] : n \in 0..MaxText }

\* merged configurations a -> b -> c -> d -> e, with references that end at
\* a text, at a missing key, or at an environment variable
RenderConfigs ==
  { M([a |-> S(ta), b |-> S(tb), c |-> S(tc), d |-> S(td)]) :
      ta \in Texts,
      tb \in { << "x" >>, << "{{c}}" >>, << Quote >> },
      tc \in { << "x" >>, << "{{d}}" >>, << Backslash, "x" >> },
      td \in { << "x" >>, << "{{e}}" >> } }

\* this.envs
RenderEnvs == { EmptyObject, M("e" :> S(<< "y" >>)), M("e" :> S(<< Quote >>)),
                M("c" :> S(<< "z" >>)) }

\* the values of one pass: merge({}, config, this.envs)
Scope(conf, envs) == merge(merge(EmptyObject, conf), envs)

InitRender ==
  /\ InitRun
  /\ applied = "none"
  /\ input \in [config : RenderConfigs, envs : RenderEnvs]
  /\ output = << >>

\* config = this.mustacheRender(config, merge({}, config, this.envs))
renderOnce ==
  /\ applied = "none"
  /\ IF RenderThrows(input.config, Scope(input.config, input.envs))
     THEN /\ applied' = "render thrown"
          /\ output' = [passes |-> << >>]
     ELSE /\ applied' = "once"
          /\ output' = [passes |->
               << mustacheRender(input.config,
                                 Scope(input.config, input.envs)) >>]
  /\ UNCHANGED input
  /\ UNCHANGED runVars

\* the same statement again, on the config the pass before has returned:
\* parseConfig runs it a second time, a third run is what idempotence is about
renderAgain ==
  /\ applied \in { "once", "twice" }
  /\ LET conf == output.passes[Len(output.passes)]
     IN IF RenderThrows(conf, Scope(conf, input.envs))
        THEN /\ applied' = "render thrown"
             /\ UNCHANGED output
        ELSE /\ applied' = IF applied = "once" THEN "twice" ELSE "thrice"
             /\ output' = [passes |-> Append(output.passes,
                             mustacheRender(conf, Scope(conf, input.envs)))]
  /\ UNCHANGED input
  /\ UNCHANGED runVars

NextRender == renderOnce \/ renderAgain
SpecRender == InitRender /\ [][NextRender]_vars

----------------------------------------------------------------------------

(* Config.parse and utils.getSystemBucket *)

\* values a key of config.yml can hold: a string, the empty string, a number
BucketValues ==
  { [type |-> "string", text |-> << "internal-bucket" >>],
    [type |-> "string", text |-> << "system-bucket" >>],
    [type |-> "string", text |-> << >>],
    [type |-> "number", text |-> << "123" >>] }

\* the parsed config, with every subset of the keys buckets (a mapping with
\* or without internal), system_bucket and bucket
BucketConfigs ==
  UNION { [D -> BucketValues \cup { << >> }] :
            D \in SUBSET { "buckets.internal", "system_bucket", "bucket" } }

\* lodash.get(config, path) of the model's configs; a buckets mapping without
\* the key internal holds << >> for it
Defined(conf, path) == path \in DOMAIN conf /\ conf[path] # << >>

\* bucket && typeof bucket === 'string'
IsBucketName(conf, path) ==
  /\ Defined(conf, path)
  /\ conf[path].type = "string"
  /\ conf[path].text # << >>

NoBucket == [type |-> "undefined", text |-> << >>]

getSystemBucket(conf) ==
  IF IsBucketName(conf, "buckets.internal") THEN conf["buckets.internal"]
  ELSE IF IsBucketName(conf, "system_bucket") THEN conf["system_bucket"]
  ELSE NoBucket

InitParse ==
  /\ InitRun
  /\ applied = "none"
  /\ input \in BucketConfigs
  /\ output = << >>

\* Config.parse: this.bucket = utils.getSystemBucket(config), and then
\* merge(this, config), which copies every defined key of the config into
\* the instance, the key bucket among them
parse ==
  /\ applied = "none"
  /\ applied' = "parse"
  /\ output' = [systemBucket |-> getSystemBucket(input),
                bucket |-> IF Defined(input, "bucket")
                           THEN input["bucket"]
                           ELSE getSystemBucket(input)]
  /\ UNCHANGED input
  /\ UNCHANGED runVars

NextParse == parse
SpecParse == InitParse /\ [][NextParse]_vars

----------------------------------------------------------------------------

(* Lambda.updateSingleLambda *)

UnitNames == { "f1", "f2", "0" }

\* config.lambdas after configureLambda: units with distinct names, kept as
\* the list or as the name-keyed mapping they were given as
NamedUnits ==
  { units \in UNION { [1..n -> UnitNames] : n \in 0..MaxUnits } :
      \A i, j \in DOMAIN units : units[i] = units[j] => i = j }

\* the text of an array index
IndexKey(i) ==
  CASE i = 1 -> "0" [] i = 2 -> "1" [] i = 3 -> "2" [] OTHER -> "3"

\* Object.keys(this.config.lambdas): the names of a mapping, the indices of
\* a list
ObjectKeys(isArray, units) ==
  [i \in DOMAIN units |-> IF isArray THEN IndexKey(i) ELSE units[i]]

NotDefinedMsg == << "Lambda", "function", "is", "not", "defined", "in",
                    "config.yml" >>

InitUpdate ==
  /\ InitRun
  /\ applied = "none"
  /\ input \in [isArray : BOOLEAN, lambdas : NamedUnits,
                name : UnitNames \cup { "f3" }]
  /\ output = << >>

\* updateSingleLambda up to zipLambda: the unit is looked up by comparing the
\* keys of config.lambdas with name
updateSingleLambda ==
  /\ applied = "none"
  /\ LET keys == ObjectKeys(input.isArray, input.lambdas)
         found == { i \in DOMAIN keys : keys[i] = input.name }
     IN IF found = {}
        THEN /\ applied' = "update thrown"
             /\ output' = [error |-> NotDefinedMsg]
        ELSE /\ applied' = "zipLambda"
             /\ output' = [lambda |-> input.lambdas[CHOOSE i \in found : TRUE]]
  /\ UNCHANGED input
  /\ UNCHANGED runVars

\* zipLambda(lambda).then(lambda => l.updateFunctionCode(...))
updateFunctionCode ==
  /\ applied = "zipLambda"
  /\ \E zipped \in BOOLEAN :
       IF zipped
       THEN /\ applied' = "updateFunctionCode"
            /\ output' = [lambda |-> output.lambda,
                          FunctionName |-> << "stack", "-", input.name >>]
       ELSE /\ applied' = "update rejected"
            /\ UNCHANGED output
  /\ UNCHANGED input
  /\ UNCHANGED runVars

NextUpdate == updateSingleLambda \/ updateFunctionCode
SpecUpdate == InitUpdate /\ [][NextUpdate]_vars

----------------------------------------------------------------------------

----------------------------------------------------------------------------
(* Properties of lodash.merge *)

\* C8: in the merged document a key of the override whose value is a scalar
\* or a sequence holds exactly the override's value, also one level down in
\* mappings present on both sides, and keys of the default alone are kept.
C8_OverrideReplaces ==
  applied = "mergeYamls" =>
    LET Replaced(obj, src, out) ==
          /\ DOMAIN out.m = DOMAIN obj.m \cup DOMAIN src.m
          /\ \A k \in DOMAIN obj.m \ DOMAIN src.m : out.m[k] = obj.m[k]
          /\ \A k \in DOMAIN src.m :
               ~IsMap(src.m[k]) => out.m[k] = src.m[k]
    IN /\ Replaced(input.obj1, input.obj2, output)
       /\ \A k \in DOMAIN input.obj1.m \cap DOMAIN input.obj2.m :
            IsMap(input.obj1.m[k]) /\ IsMap(input.obj2.m[k]) =>
              Replaced(input.obj1.m[k], input.obj2.m[k], output.m[k])

----------------------------------------------------------------------------
(* Properties of parseConfig *)

\* the lambdas of a config, each with the name configureLambda gives it: its
\* own name in a list, its key in a mapping
UnitIds(conf) ==
  IF IsSeq(conf.m["lambdas"]) THEN DOMAIN conf.m["lambdas"].q
  ELSE DOMAIN conf.m["lambdas"].m
UnitOf(conf, id) ==
  IF IsSeq(conf.m["lambdas"]) THEN conf.m["lambdas"].q[id]
  ELSE conf.m["lambdas"].m[id]
UnitName(conf, id) ==
  IF IsSeq(conf.m["lambdas"]) THEN TextOf(UnitOf(conf, id), "name")
  ELSE << id >>

\* what C9 says of one lambda, for a given effective stack name: the three
\* defaults where the field was absent, the given fields kept, fullName
UnitConfigured(before, after, id, stackName, kept) ==
  LET given == UnitOf(before, id)
      unit == UnitOf(after, id)
  IN /\ \A k \in { "memory", "timeout", "envs" } :
          unit.m[k] = IF k \in DOMAIN given.m THEN given.m[k]
                      ELSE LambdaDefaults[k]
     /\ \A k \in DOMAIN given.m \cap kept : unit.m[k] = given.m[k]
     /\ unit.m["fullName"] =
          S(stackName \o << "-" >> \o UnitName(before, id))

Resolved == applied = "parseConfig" /\ "config" \in DOMAIN output

\* C9 as stated: every lambda of the rendered merged config has the three
\* defaults where the field was absent, keeps every given field, and has
\* fullName '<stackName of the rendered merged layer>-<name>'.
C9_FullNameFromLayer ==
  Resolved =>
    /\ UnitIds(output.config) = UnitIds(output.rendered)
    /\ \A id \in UnitIds(output.rendered) :
         UnitConfigured(output.rendered, output.config, id,
                        TextOf(output.rendered, "stackName"),
                        { "memory", "timeout", "envs" })

\* C9 amended: the stack name of fullName is options.stack when --stack is
\* given and the one of the rendered merged layer otherwise, and a lambda
\* of a mapping takes its key as name whatever name it carried.
C9_FullNameFromEffectiveStack ==
  Resolved =>
    /\ UnitIds(output.config) = UnitIds(output.rendered)
    /\ \A id \in UnitIds(output.rendered) :
         /\ UnitConfigured(output.rendered, output.config, id,
                           IF input.options.stack # << >>
                           THEN input.options.stack
                           ELSE TextOf(output.rendered, "stackName"),
                           { "memory", "timeout", "envs" })
         /\ UnitOf(output.config, id).m["name"] =
              S(UnitName(output.rendered, id))

\* layer prod with stackName demo-prod and a list with the bare lambda f1
C9_Witness ==
  /\ Resolved
  /\ input.options = [deployment |-> "prod", stack |-> << >>]
  /\ TextOf(output.rendered, "stackName") = << "demo", "-", "prod" >>
  /\ IsSeq(output.config.m["lambdas"])
  /\ Len(output.config.m["lambdas"].q) >= 1
  /\ output.rendered.m["lambdas"].q[1] = M("name" :> S(<< "f1" >>))
  /\ output.config.m["lambdas"].q[1] =
       M([name |-> S(<< "f1" >>), memory |-> S(<< "1024" >>),
          timeout |-> S(<< "300" >>), envs |-> EmptyObject,
          fullName |-> S(<< "demo", "-", "prod", "-", "f1" >>)])

----------------------------------------------------------------------------
(* Properties of configureApiGateway *)

\* the segment chains of a route: the non-empty prefixes of its segments
Chains(route) ==
  LET segments == split(route.path)
  IN { SubSeq(segments, 1, i) : i \in 1..Len(segments) }

\* C10: for two routes whose paths share their first segment, the returned
\* apiResources has exactly one resource per segment chain of the two paths,
\* shared chains counted once, and apiMethods has one method per route.
C10_OneResourcePerChain ==
  /\ applied = "returned" /\ Len(input.routes) = 2
  /\ split(input.routes[1].path)[1] = split(input.routes[2].path)[1]
  => /\ Len(output.apiResources) =
          Cardinality(Chains(input.routes[1]) \cup Chains(input.routes[2]))
     /\ Len(output.apiMethods) = 2

ResourceNames ==
  { output.apiResources[i].name : i \in DOMAIN output.apiResources }
OptionsOf(resource) ==
  { i \in DOMAIN output.apiMethodsOptions :
      output.apiMethodsOptions[i].resource = resource }
CorsMethodsOf(resource) ==
  { i \in DOMAIN output.apiMethods :
      output.apiMethods[i].resource = resource /\ output.apiMethods[i].cors }

\* C11: the returned apiMethodsOptions has exactly one entry for each
\* resource with at least one CORS-enabled route, none for a resource
\* without one, and no entry for anything that is not a resource.
C11_OneOptionsPerCorsResource ==
  applied = "returned" =>
    /\ \A resource \in ResourceNames :
         Cardinality(OptionsOf(resource)) =
           IF CorsMethodsOf(resource) # {} THEN 1 ELSE 0
    /\ \A i \in DOMAIN output.apiMethodsOptions :
         output.apiMethodsOptions[i].resource \in ResourceNames

\* two CORS-enabled routes of one path on different methods, one entry
C11_Witness ==
  /\ applied = "returned" /\ Len(input.routes) = 2
  /\ input.routes[1].path = input.routes[2].path
  /\ input.routes[1].method # input.routes[2].method
  /\ input.routes[1].cors /\ input.routes[2].cors
  /\ Len(output.apiMethodsOptions) = 1

\* the names of the methods of one api, in the order of apiMethods
MethodNamesOf(api) ==
  LET OfApi(method) == method.api = api
      methods == SelectSeq(output.apiMethods, OfApi)
  IN [i \in DOMAIN methods |-> [name |-> methods[i].name]]
Declared(api) == \E i \in DOMAIN input.apis : input.apis[i] = api

ChainResourceName(segments, index) ==
  << "ApiGateWayResource" >>
    \o join([i \in 1..index |-> canonicalName(segments[i])])
ResourceNamed(name) ==
  output.apiResources[CHOOSE i \in DOMAIN output.apiResources :
                        output.apiResources[i].name = name]

\* C13: for every route read and every segment position, the returned
\* resource of the segments up to that position refers to the root resource
\* of the route's api at the first position and to the resource of the
\* segments before it at every later position.
C13_ParentIsPrefixResource ==
  applied = "returned" =>
    \A n \in DOMAIN input.routes :
      LET route == input.routes[n]
          segments == split(route.path)
      IN \A index \in DOMAIN segments :
           LET resource == ResourceNamed(ChainResourceName(segments, index))
           IN IF index = 1
              THEN /\ resource.firstParent
                   /\ resource.parents =
                        << << "Fn::GetAtt:" >>,
                           << "-", route.api, "RestApi" >>,
                           << "-", "RootResourceId" >> >>
              ELSE /\ ~resource.firstParent
                   /\ resource.parents =
                        << << "Ref:" >>
                             \o ChainResourceName(segments, index - 1) >>

\* C25: the chains of segments of the routes read map to resource names one
\* to one, and the returned resource of every chain still holds the last
\* segment of that chain as pathPart.
C25_ResourceKeysInjective ==
  applied = "returned" =>
    \A n, o \in DOMAIN input.routes :
      \A chain \in Chains(input.routes[n]), other \in Chains(input.routes[o]) :
        /\ chain # other =>
             ChainResourceName(chain, Len(chain))
               # ChainResourceName(other, Len(other))
        /\ ResourceNamed(ChainResourceName(chain, Len(chain))).pathPart
             = chain[Len(chain)]

\* C26: every returned method and every returned methodOptions entry refers
\* to a resource whose api is the entry's own api.
C26_EntriesReferToOwnApi ==
  applied = "returned" =>
    /\ \A i \in DOMAIN output.apiMethods :
         ResourceNamed(output.apiMethods[i].resource).api
           = output.apiMethods[i].api
    /\ \A i \in DOMAIN output.apiMethodsOptions :
         ResourceNamed(output.apiMethodsOptions[i].resource).api
           = output.apiMethodsOptions[i].api

\* C27: in the returned sets every resource that is not a child of the API
\* root refers to a parent that is among the returned resources, and every
\* method and every methodOptions entry refers to a returned resource.
C27_ReferencesClosed ==
  applied = "returned" =>
    /\ \A i \in DOMAIN output.apiResources :
         LET resource == output.apiResources[i]
         IN ~resource.firstParent =>
              /\ Len(resource.parents) = 1
              /\ Head(resource.parents[1]) = "Ref:"
              /\ Tail(resource.parents[1]) \in ResourceNames
    /\ \A i \in DOMAIN output.apiMethods :
         output.apiMethods[i].resource \in ResourceNames
    /\ \A i \in DOMAIN output.apiMethodsOptions :
         output.apiMethodsOptions[i].resource \in ResourceNames

\* two routes read in an order that overwrites a resource: foo/bar of v1
\* with CORS, then fooBar of v2
C27_Witness ==
  /\ applied = "returned" /\ Len(input.routes) = 2
  /\ input.routes[1].path = << "foo", "/", "bar" >>
  /\ input.routes[1].api = "v1" /\ input.routes[1].cors
  /\ input.routes[2].path = << "foo", "Bar" >>
  /\ input.routes[2].api = "v2"
  /\ Len(output.apiResources) = 2 /\ Len(output.apiMethods) = 2
  /\ Len(output.apiMethodsOptions) = 1

----------------------------------------------------------------------------
(* Properties of Lambda.process *)

SourcedLambdas ==
  { i \in DOMAIN output.config : output.config[i].source # << >> }

\* C14: after process, two lambdas with the same source have the same hash,
\* bucket, local zip path and remote key whatever their names, and the jobs
\* that were started are one per distinct hash of the lambdas with source.
C14_OneArtifactPerSource ==
  /\ applied = "processed" =>
       \A i, j \in SourcedLambdas :
         output.config[i].source = output.config[j].source =>
           /\ output.config[i].hash = output.config[j].hash
           /\ output.config[i].hash # << >>
           /\ output.config[i].bucket = output.config[j].bucket
           /\ output.config[i].local = output.config[j].local
           /\ output.config[i].remote = output.config[j].remote
  /\ applied \in { "Promise.all", "rejected", "processed" } =>
       /\ \A j, k \in DOMAIN output.jobs :
            output.jobs[j].lambda.hash = output.jobs[k].lambda.hash => j = k
       /\ { output.jobs[j].lambda.hash : j \in DOMAIN output.jobs } =
            { output.lambdas[i].hash :
                i \in { n \in DOMAIN output.lambdas :
                          output.lambdas[n].source # << >> } }

\* two lambdas of different names with the same source, one job
C14_Witness ==
  /\ applied = "processed"
  /\ Len(output.config) >= 2
  /\ output.config[1].source # << >>
  /\ output.config[1].source = output.config[2].source
  /\ output.config[1].name # output.config[2].name
  /\ Len(output.jobs) = 1

----------------------------------------------------------------------------
(* Properties of the CLI run *)

Issued(c) == \E i \in DOMAIN calls : calls[i] = c
Count(c) == Cardinality({ i \in DOMAIN calls : calls[i] = c })
LastCall == IF calls = << >> THEN "none" ELSE calls[Len(calls)]

\* C1 as stated: once updateStack has failed with 'No updates are to be
\* performed.', no create, wait or event-log fetch follows, cloudFormation
\* resolves, and the CLI exits with code 0.
C1_NoUpdatesExitsZero ==
  err = NoUpdates =>
    /\ ~Issued("createStack") /\ ~Issued("waitFor")
    /\ ~Issued("describeStackEvents")
    /\ pc \notin { "createStack", "waitFor", "describeStackEvents" }
    /\ pc \in { "opsStack", "describeCF", "exit" } => cfResult = "resolved"
    /\ pc = "exit" => exitCode = 0

\* C1 amended: once updateStack has failed with 'No updates are to be
\* performed.', no create, wait or event-log fetch follows and cloudFormation
\* resolves; the CLI exits with code 0 when showOutputs is not set, and
\* exits with code 1 only when showOutputs is set and the describe made for
\* the outputs was the last call.
C1_NoUpdatesIsSuccess ==
  err = NoUpdates =>
    /\ ~Issued("createStack") /\ ~Issued("waitFor")
    /\ ~Issued("describeStackEvents")
    /\ pc \notin { "createStack", "waitFor", "describeStackEvents" }
    /\ pc \in { "opsStack", "describeCF", "exit" } => cfResult = "resolved"
    /\ pc = "exit" /\ showOutputs # "yes" => exitCode = 0
    /\ pc = "exit" /\ exitCode # 0 =>
         /\ exitCode = 1 /\ showOutputs = "yes"
         /\ LastCall = "describeStacks" /\ Count("describeStacks") >= 2

C1_Witness ==
  err = NoUpdates /\ pc = "exit" /\ exitCode = 0 /\ cfResult = "resolved"

\* C2: a non-empty selected layer that is not a key of the config document
\* ends the run with exit code 1 before any remote call.
C2_MissingLayerFails ==
  pc # "buildCf" /\ selected.deployment # "" /\ ~selected.own =>
    pc = "exit" /\ exitCode = 1 /\ calls = << >>

\* C3: describe precedes every create and update call; create is issued if
\* and only if the describe probe reported that the stack does not exist, and
\* update if and only if the probe succeeded.
C3_ProbeDecides ==
  /\ \A i \in DOMAIN calls :
       calls[i] \in { "createStack", "updateStack" } =>
         \E j \in 1..(i - 1) : calls[j] = "describeStacks"
  /\ Issued("createStack") => probe = "not found"
  /\ probe = "not found" /\ pc \notin { "catchProbe", "createStack" } =>
       Issued("createStack")
  /\ Issued("updateStack") => probe = "resolved"
  /\ probe = "resolved" /\ pc # "updateStack" => Issued("updateStack")

\* C4: when the probe succeeded and the update then fails because the stack
\* does not exist, the failed update is the last call of cloudFormation and
\* the run ends Failed.
C4_ChangedStackIsTerminal ==
  probe = "resolved" /\ Includes(err.message, DoesNotExist) =>
    /\ LastCall = "updateStack"
    /\ pc \in { "catchProbe", "catchDeploy", "exit" }
    /\ pc = "exit" => exitCode = 1 /\ cfResult = "rejected"

\* C5: a run whose wait ended on a failure-class terminal status (the
\* waiter's ResourceNotReady) ends Failed with exit code 1 and has fetched
\* the event log exactly once, on the create path and on the update path.
C5_FailedWaitFetchesLog ==
  pc = "exit" /\ op = "opsStack" /\ err.code = "ResourceNotReady" =>
    /\ exitCode = 1 /\ cfResult = "rejected"
    /\ Count("describeStackEvents") = 1

FailedAfterStart(e) ==
  e.ResourceStatus = << "CREATE", "FAILED" >> /\ e.Timestamp > StartTime
Occurrences(q, e) == Cardinality({ i \in DOMAIN q : q[i] = e })

\* C6: the events surfaced after a failed deployment are exactly the fetched
\* events with a failure status and a timestamp after the start time, in
\* ascending order of timestamp.
C6_FailuresChronological ==
  pc = "exit" /\ r.kind = "events" =>
    /\ \A e \in StackEvent :
         Occurrences(surfaced, e) =
           IF FailedAfterStart(e) THEN Occurrences(r.StackEvents, e) ELSE 0
    /\ \A i, j \in DOMAIN surfaced :
         i < j => surfaced[i].Timestamp <= surfaced[j].Timestamp

\* C7: deleteStack issues the delete call only with config.yes set or an
\* affirmative answer; after a declined prompt it issues no remote call and
\* the run ends with exit code 0.
C7_DeleteNeedsConsent ==
  /\ op = "deleteStack" /\ (pc \in { "deleteCF", "waitForDelete" } \/ Issued("deleteStack"))
       => confirm \in { "flag", "answered" }
  /\ confirm = "declined" =>
       pc = "exit" /\ exitCode = 0 /\ Len(calls) = opCalls

C7_Witness ==
  confirm = "declined" /\ pc = "exit" /\ op = "deleteStack"

Rejected(js) == \E j \in DOMAIN js : js[j] = "rejected"

\* C15 as stated for the whole run: the template is rendered only after
\* every job has resolved and the location fields are written, and once a
\* job is rejected no template at all has been rendered or uploaded in the
\* run and no create or update call has been issued.
C15_NothingUploadedOnRejection ==
  /\ pc = "compileCF" =>
       /\ \A j \in DOMAIN jobs : jobs[j] = "resolved"
       /\ cur.located
  /\ Rejected(jobs) =>
       /\ ~compiled /\ urls = {} /\ ~Issued("uploadTemplate")
       /\ ~Issued("createStack") /\ ~Issued("updateStack")

\* C15, amended: the then() of compileCF, which renders the template, runs only once
\* every zip-and-upload job of the running Kes instance has resolved and
\* buildS3Path has written the location fields; when a job is rejected the
\* run ends at once with exit code 1, the instance has rendered nothing, no
\* create or update call has been issued, and every template upload made so
\* far belongs to a nested template that was finished before.
C15_RenderAfterJoin ==
  /\ pc = "compileCF" =>
       /\ \A j \in DOMAIN jobs : jobs[j] = "resolved"
       /\ cur.located
  /\ compiled => cur.located
  /\ Rejected(jobs) =>
       /\ pc = "exit" /\ exitCode = 1 /\ ~compiled
       /\ ~Issued("createStack") /\ ~Issued("updateStack")
       /\ Count("uploadTemplate") <= Cardinality(urls)
       /\ kes = "main" => Len(calls) >= opCalls /\
            \A i \in (opCalls + 1)..Len(calls) :
              calls[i] = "uploadLambda"

\* two jobs of a deploy run, one resolved and the other's upload rejected
C15_Witness ==
  /\ kes = "main" /\ op = "opsStack" /\ Len(jobs) = 2
  /\ \E j, k \in DOMAIN jobs : jobs[j] = "resolved" /\ jobs[k] = "rejected"
  /\ LastCall = "uploadLambda"

\* C16: at most one nested template is being compiled and uploaded at any
\* moment, and when the switch of buildCf has selected the main stack's
\* operation, every nested template of the configuration has been started and
\* has settled, its template has been uploaded (one upload request per nested
\* template precedes the operation) and its url has been stored.
C16_NestedOneAtATime ==
  /\ Cardinality(running) <= 1
  /\ kes = "main" =>
       /\ nestedLeft = << >> /\ running = {}
       /\ urls = { config.nested[i] : i \in DOMAIN config.nested }
       /\ opCalls <= Len(calls)
       /\ Cardinality({ i \in 1..opCalls : calls[i] = "uploadTemplate" })
            = Len(config.nested)

\* requests that change remote state
Mutations == { "uploadLambda", "uploadTemplate", "createStack", "updateStack",
               "deleteStack" }

\* the step in which a configuration error is raised (the Config constructor
\* of the parent or of a nested stack throws)
ConfigErrorRaised ==
  /\ pc \in { "buildCf", "buildNestedCfs" }
  /\ kes # "main"
  /\ pc' = "exit" /\ exitCode' = 1

\* the step in which a templating error is raised (parseCF throws in the
\* then() of compileCF, for the main or for a nested template)
TemplateErrorRaised == pc = "compileCF" /\ pc' = "exit" /\ exitCode' = 1

\* C17: when a configuration error or a templating error is raised, no
\* artifact upload, no template upload and no stack create, update or delete
\* has been issued in the run.
C17_ErrorsBeforeMutation ==
  [][ ConfigErrorRaised \/ TemplateErrorRaised =>
        \A i \in DOMAIN calls : calls[i] \notin Mutations ]_vars

\* the last line of the env file that assigns key k
LastAssignment(lines, k) ==
  LET at == { i \in DOMAIN lines : IsAssignment(lines[i]) /\ lines[i][1] = k }
  IN lines[CHOOSE i \in at : \A j \in at : j <= i]

FileKeys(lines) ==
  { lines[i][1] : i \in { j \in DOMAIN lines : IsAssignment(lines[j]) } }

\* C18: loadLocalEnvs returns process.env itself, which afterwards holds, for
\* every key the env file assigns, the value of the file (of its last
\* assignment, blank lines and comments ignored), and for every other key
\* the value it had; when the file does not exist no error is raised and
\* process.env is unchanged.
C18_FileOverlaysEnv ==
  /\ applied = "loadLocalEnvs" =>
       /\ output.returned = "process.env"
       /\ DOMAIN output.env = DOMAIN input.env \cup FileKeys(input.file.lines)
       /\ \A k \in FileKeys(input.file.lines) :
            LET line == LastAssignment(input.file.lines, k)
            IN output.env[k] = IF Len(line) = 2 THEN ""
                               ELSE IF Len(line) = 3 THEN line[3] ELSE line[4]
       /\ \A k \in DOMAIN input.env \ FileKeys(input.file.lines) :
            output.env[k] = input.env[k]
  /\ input.file.error = NoEntMsg /\ applied # "none" =>
       /\ applied \in { "parsed", "loadLocalEnvs" }
       /\ applied = "loadLocalEnvs" => output.env = input.env

\* the file assigns TIMEOUT a value other than the one process.env holds,
\* after a comment line
C18_Witness ==
  /\ applied = "loadLocalEnvs"
  /\ "TIMEOUT" \in DOMAIN input.env /\ input.env["TIMEOUT"] = "100"
  /\ input.file.lines = << << "#", "TIMEOUT", "=", "1" >>,
                           << "TIMEOUT", "=", "200" >> >>
  /\ output.env["TIMEOUT"] = "200"

\* the selected Kes method has issued no CloudFormation request yet
NoStackRequest ==
  /\ opCalls <= Len(calls)
  /\ \A i \in (opCalls + 1)..Len(calls) :
       calls[i] \in { "uploadLambda", "uploadTemplate" }

\* C19: a deploy run in which every request succeeds ends with exit code 0,
\* with and without an application template: a deploy run that has packaged,
\* rendered and uploaded without an error and whose Kes.cloudFormation has
\* issued no request has not ended with exit code 1; and a run in which an
\* upload job or the deployment fails ends with exit code 1.
C19_ExitCodes ==
  /\ pc = "exit" /\ kes = "main" /\ op = "opsStack" /\ compiled
       /\ cfResult = "rejected" /\ NoStackRequest
       => exitCode = 0
  /\ pc = "exit" /\ (Rejected(jobs) \/ (cfResult = "rejected" /\ ~NoStackRequest))
       => exitCode = 1

\* C20: a run ends Failed on a throttling error of updateStack or createStack
\* only after the call has been retried, Retries times at most (five
\* attempts, or five retries of the first attempt); on any other error of the
\* call the run ends Failed with the call made once.
C20_ThrottledDeployRetried ==
  \A c \in { "updateStack", "createStack" } :
    pc = "exit" /\ exitCode = 1 /\ LastCall = c /\ err # NoError =>
      IF err = Throttling
      THEN Count(c) \in { Retries, Retries + 1 }
      ELSE Count(c) = 1

\* a reference is left in the tree
RECURSIVE HasReference(_)
HasReference(obj) ==
  IF IsScalar(obj) THEN \E i \in DOMAIN obj.s : obj.s[i] \in Tags
  ELSE IF IsSeq(obj) THEN \E i \in DOMAIN obj.q : HasReference(obj.q[i])
  ELSE \E k \in DOMAIN obj.m : HasReference(obj.m[k])

\* C21: when the twice-substituted tree holds no reference any more, a third
\* substitution against the scope of that tree and the environment does not
\* throw and returns a tree equal to the twice-substituted one.
C21_ThirdPassChangesNothing ==
  /\ applied = "thrice" /\ ~HasReference(output.passes[2]) =>
       output.passes[3] = output.passes[2]
  /\ applied = "render thrown" /\ Len(output.passes) = 2 =>
       HasReference(output.passes[2])

\* a chain of three references that the two passes have resolved, next to a
\* quote that the JSON text has to carry through every pass
C21_Witness ==
  /\ applied = "thrice"
  /\ input.config.m["a"].s = << "{{b}}", Quote >>
  /\ input.config.m["b"].s = << "{{c}}" >>
  /\ input.config.m["c"].s = << "{{d}}" >>
  /\ input.config.m["d"].s = << "x" >>
  /\ output.passes[1].m["a"].s = << "{{c}}", Quote >>
  /\ output.passes[2].m["a"].s = << "x", Quote >>
  /\ output.passes[3] = output.passes[2]

\* C22: the bucket of the resolved configuration is buckets.internal when
\* that is a non-empty string, otherwise system_bucket when that is a
\* non-empty string, otherwise undefined.
C22_BucketFromConfig ==
  applied = "parse" =>
    output.bucket =
      IF IsBucketName(input, "buckets.internal") THEN input["buckets.internal"]
      ELSE IF IsBucketName(input, "system_bucket") THEN input["system_bucket"]
      ELSE NoBucket

\* the step in which a packaging error is raised: getHash throws in
\* buildS3Path, or the zip of one job fails
PackagingErrorRaised ==
  \/ pc = "process" /\ cur.bucket /\ pc' = "exit" /\ exitCode' = 1
  \/ pc = "Promise.all" /\ pc' = "exit" /\ exitCode' = 1 /\ calls' = calls

\* C23: when a packaging error is raised the run fails at once, and at that
\* time no artifact has been uploaded, no template has been uploaded and no
\* stack create or update has been issued in the run.
C23_PackagingErrorBeforeMutation ==
  [][ PackagingErrorRaised =>
        \A i \in DOMAIN calls : calls[i] \notin Mutations ]_vars

\* the number of describeStacks requests at the end of calls
RECURSIVE TrailingDescribes(_)
TrailingDescribes(cs) ==
  IF cs = << >> \/ cs[Len(cs)] # "describeStacks" THEN 0
  ELSE 1 + TrailingDescribes(SubSeq(cs, 1, Len(cs) - 1))

\* C24: while describeStack is running every attempt made so far was
\* throttled and at most Retries of them were made; it makes Retries + 1
\* requests at most and none after a success; after a non-throttling error
\* it rejects at once with an error that carries the message (and not the
\* code) of that error; it rejects with the throttling error only when all
\* Retries + 1 attempts were throttled.
C24_DescribeRetriesThrottlingOnly ==
  /\ pc = "describeStack" =>
       attempts <= Retries /\ TrailingDescribes(calls) = attempts
  /\ pc = "updateStack" =>
       probe = "resolved" /\ TrailingDescribes(calls) \in 1..(Retries + 1)
  /\ pc = "catchProbe" /\ LastCall = "describeStacks" =>
       IF err = Throttling
       THEN TrailingDescribes(calls) = Retries + 1
       ELSE /\ err.code = ""
            /\ err.message \in { NotExistMsg, DeniedMsg }
            /\ TrailingDescribes(calls) \in 1..(Retries + 1)

\* six throttled attempts
C24_Witness ==
  /\ pc = "catchProbe" /\ LastCall = "describeStacks"
  /\ err = Throttling /\ probe = "rejected"
  /\ TrailingDescribes(calls) = Retries + 1

\* C28: updateSingleLambda(name) selects the unit whose name is name, for a
\* mapping and for a list alike, and updates the function stack-name; it
\* throws 'Lambda function is not defined in config.yml' exactly when no unit
\* has that name.
C28_UnitSelectedByName ==
  LET named == { i \in DOMAIN input.lambdas : input.lambdas[i] = input.name }
  IN /\ applied \in { "zipLambda", "updateFunctionCode", "update rejected" } =>
          named # {} /\ output.lambda = input.name
     /\ applied = "updateFunctionCode" =>
          output.FunctionName = << "stack", "-", output.lambda >>
     /\ applied = "update thrown" =>
          named = {} /\ output.error = NotDefinedMsg

\* C29: the methods compileCF, validateTemplate and deleteStack (the
\* operations compile, validate and delete) never issue createStack or
\* updateStack; compileCF and validateTemplate never issue deleteStack; an
\* unrecognized operation issues none of the three; and neither does the
\* processing of the nested templates, which precedes the switch.
C29_NoStackCallOutsideDeploy ==
  /\ op \in { "compileCF", "validateTemplate", "deleteStack" } =>
       ~Issued("createStack") /\ ~Issued("updateStack")
  /\ op \in { "compileCF", "validateTemplate" } => ~Issued("deleteStack")
  /\ op \in { "default", "none" } =>
       ~Issued("createStack") /\ ~Issued("updateStack") /\ ~Issued("deleteStack")

\* a validate run of a configuration with nested templates that has uploaded
\* the templates and has had the main template validated
C29_Witness ==
  /\ pc = "exit" /\ op = "validateTemplate"
  /\ config.nested # << >>
  /\ Count("uploadTemplate") >= 2
  /\ Issued("validateTemplate")

\* C30: a deploy run never reports success after a failed wait: once the
\* wait that follows an issued createStack or updateStack has rejected,
\* Kes.cloudFormation does not resolve, whatever the event-log fetch answers.
C30_FailedWaitRejects ==
  /\ op = "opsStack" /\ Issued("waitFor") /\ err \in WaitErrors(wait)
    => cfResult # "resolved" /\ (pc = "exit" => exitCode = 1)

====
